---- MODULE Spec2Model ----
(***************************************************************************)
(* Playback relay engine of the Radio TX Studio backend (server.js).       *)
(*                                                                         *)
(* The server is a single Node.js process: every handler below runs to     *)
(* completion on the event loop, and the steps of one /api/play request    *)
(* (request, end of the metadata inspection, connect callback) are         *)
(* separate event-loop turns that other handlers can run between.          *)
(*                                                                         *)
(* Sockets and read streams are numbered by the play request that created  *)
(* them: request r creates socket r (line 155) and, in its connect         *)
(* callback, read stream r (line 171).  0 stands for null.                 *)
(***************************************************************************)
EXTENDS Integers, Sequences, FiniteSets, TLC

\* ---- bounds of the model -------------------------------------------------
MaxReq == 2        \* play requests that reach the metadata inspection
LenA == 2          \* byte length of file "a"
LenB == 1          \* byte length of file "b"
ChunkSize == 1     \* bytes per 'data' chunk of a read stream

\* ---- the upload directory -------------------------------------------------
null == "null"
undefined == "undefined"

\* files present under UPLOAD_DIR; "z" is a zero-length file
Files == {"a", "b", "z"}

\* fileId values a request body can carry: a stored file, a name that does
\* not exist ("m"), or no fileId at all ("")
FileIds == Files \cup {"m", ""}

FileLen(f) == CASE f = "a" -> LenA
                [] f = "b" -> LenB
                [] OTHER -> 0

\* the bytes of file f, each named by the file and its position
FileBytes(f) == [i \in 1..FileLen(f) |-> <<f, i - 1>>]

\* an existence check that looks at the upload directory, not at the file
existsSyncDirOnly(f) == TRUE

\* fs.existsSync(path.join(UPLOAD_DIR, fileId))
existsSync(f) == f \in Files

\* inspectWav(filePath).catch(() => ({})): the zero-length file has no
\* header, its inspection rejects and the result is {} (both undefined)
inspectWav(f) == CASE f = "a" -> [duration |-> 1, byteRate |-> 2]
                   [] f = "b" -> [duration |-> 2, byteRate |-> 1]
                   [] OTHER -> [duration |-> 0, byteRate |-> 0]

\* JavaScript x || y on numbers: 0/undefined are falsy
OrElse(x, y) == IF x = 0 THEN y ELSE x

Reqs == 1..MaxReq

VARIABLES
    State,             \* STATE, the in-memory session state (lines 55-61)
    activeSocket,      \* socket number or 0 for null (line 63)
    activeReadStream,  \* read stream number or 0 for null (line 64)
    nreq,              \* play requests that passed the existence check
    req,               \* per play request: fileId, position, HTTP response
    sockets,           \* per socket: net.Socket state, and the bytes
                       \* it has put on the connection
    streams,           \* per read stream: fs.ReadStream state
    sink,              \* bytes handed to the TCP connection, in order
    lastEvent,         \* last 'status' message broadcast to WebSocket clients
    crashed,           \* an exception escaped a callback: the process is gone
    op,                \* the handler that ran last, its reply, and the
                       \* playing flag it found
    cyc                \* history: progress of a play/pause/.../completion
                       \* cycle, the read stream opened last, and how many
                       \* play requests had arrived at the last pause

vars == <<State, activeSocket, activeReadStream, nreq, req, sockets, streams,
          sink, lastEvent, crashed, op, cyc>>

NoReq == [file |-> "", pc |-> "none", resp |-> "none", b0 |-> 0]
NoSocket == [st |-> "none", ended |-> FALSE, closePending |-> FALSE, buf |-> <<>>,
             sent |-> 0]
NoStream == [st |-> "none", pos |-> 0, start |-> 0, dest |-> 0]

Init ==
    /\ State = [playing |-> FALSE, currentFile |-> null, bytesSent |-> 0,
                durationSec |-> 0, byteRate |-> 0]
    /\ activeSocket = 0
    /\ activeReadStream = 0
    /\ nreq = 0
    /\ req = [r \in Reqs |-> NoReq]
    /\ sockets = [r \in Reqs |-> NoSocket]
    /\ streams = [r \in Reqs |-> NoStream]
    /\ sink = <<>>
    /\ lastEvent = [sent |-> FALSE, playing |-> FALSE, currentFile |-> undefined]
    /\ crashed = FALSE
    /\ op = [name |-> "init", r |-> 0, file |-> "", resp |-> "none", was |-> FALSE]
    /\ cyc = [st |-> "none", file |-> "", off |-> 0, last |-> 0,
              pausedAt |-> -1]

\* ---- net.Socket and fs.ReadStream operations ------------------------------

\* socket.end(): half-close. The write side is finished once queued data is
\* flushed; the connection stays open until the peer closes its side.
SocketEnd(sk, s) ==
    IF s = 0 \/ sk[s].st = "closed" THEN sk
    ELSE [sk EXCEPT ![s].ended = TRUE]

\* socket.destroy(): the connection is closed at once, queued data is
\* discarded, and 'close' is emitted in a later event-loop turn.
SocketDestroy(sk, s) ==
    IF s = 0 \/ sk[s].st = "closed" THEN sk
    ELSE [sk EXCEPT ![s].st = "closed", ![s].closePending = TRUE,
                    ![s].buf = <<>>]

\* readStream.destroy(): the cursor is closed; no 'data' or 'end' follows.
StreamDestroy(rs, r) ==
    IF r = 0 \/ rs[r].st # "open" THEN rs
    ELSE [rs EXCEPT ![r].st = "closed"]

\* broadcast({ type: 'status', playing, currentFile })
broadcast(playing, currentFile) ==
    [sent |-> TRUE, playing |-> playing, currentFile |-> currentFile]

\* ---- cleanupStream ---------------------------------------------------------
\* The mutable engine state a handler works on.
Eng(sk, rs, as, ars, bytes) ==
    [sockets |-> sk, streams |-> rs, activeSocket |-> as,
     activeReadStream |-> ars, bytesSent |-> bytes]

CurEng == Eng(sockets, streams, activeSocket, activeReadStream, State.bytesSent)

\* cleanupStream with resetBytes defaulting to true
cleanupBytesAlwaysReset(resetBytes, bytes) == 0

\* line 219: if (resetBytes) STATE.bytesSent = 0
cleanupBytes(resetBytes, bytes) == IF resetBytes THEN 0 ELSE bytes

cleanupStream(resetBytes, e) ==
    Eng(SocketDestroy(e.sockets, e.activeSocket),
        StreamDestroy(e.streams, e.activeReadStream),
        0, 0, cleanupBytes(resetBytes, e.bytesSent))

\* the 'error' and 'close' handlers of a socket (lines 156-165) both run
\* cleanupStream() on whatever is active now; STATE.playing is not touched
SocketHandler(e) == cleanupStream(FALSE, e)

\* ---- history of the play/pause cycle ---------------------------------------
\* "none": nothing requested yet; "playing": the last command was a play of
\* cyc.file; "paused": the last command was a pause of a streaming session;
\* "done": the file reached end-of-file; "off": anything else happened (another
\* file, overlapping commands, a failure of the sink or of the file read)
CycOff == [cyc EXCEPT !.st = "off"]

CycPlay(f) ==
    IF cyc.st = "none" \/ (cyc.st = "paused" /\ cyc.file = f)
    THEN [cyc EXCEPT !.st = "playing", !.file = f]
    ELSE CycOff

CycPause ==
    IF cyc.st = "playing" /\ nreq > 0 /\ req[nreq].pc = "done"
    THEN [cyc EXCEPT !.st = "paused", !.off = State.bytesSent]
    ELSE CycOff

CycEnd == IF cyc.st = "playing" THEN [cyc EXCEPT !.st = "done"] ELSE CycOff

\* the record of the handler that runs now
Op(name, r, f, resp) ==
    [name |-> name, r |-> r, file |-> f, resp |-> resp, was |-> State.playing]

\* ---- POST /api/play ---------------------------------------------------------
\* lines 129-137: the synchronous part of the handler, up to the await
play(f) ==
    /\ ~crashed
    /\ IF f = ""
       THEN /\ op' = Op("play", 0, f, "400")
            /\ UNCHANGED <<nreq, req>>
       ELSE IF ~existsSync(f)
       THEN /\ op' = Op("play", 0, f, "404")
            /\ UNCHANGED <<nreq, req>>
       ELSE /\ nreq < MaxReq
            /\ nreq' = nreq + 1
            /\ req' = [req EXCEPT ![nreq + 1] =
                          [file |-> f, pc |-> "inspect", resp |-> "none",
                           b0 |-> State.bytesSent]]
            /\ op' = Op("play", nreq + 1, f, "none")
    /\ cyc' = IF existsSync(f) THEN CycPlay(f) ELSE CycOff
    /\ UNCHANGED <<State, activeSocket, activeReadStream, sockets, streams,
                   sink, lastEvent, crashed>>

\* a play that updates the metadata but forgets to record the file
playStateNoFile(f, st) ==
    LET info == inspectWav(f) IN
    [st EXCEPT !.durationSec = OrElse(info.duration, @),
               !.byteRate = OrElse(info.byteRate, @)]

\* lines 137-140: the fields play writes once the inspection has settled
playState(f, st) ==
    LET info == inspectWav(f) IN
    [st EXCEPT !.durationSec = OrElse(info.duration, @),
               !.byteRate = OrElse(info.byteRate, @),
               !.currentFile = f]

\* lines 142-150: "clean up any existing stream"
playTeardown(e) ==
    Eng(SocketEnd(e.sockets, e.activeSocket),
        StreamDestroy(e.streams, e.activeReadStream),
        0, 0, e.bytesSent)

\* lines 137-167: the continuation of play after `await inspectWav`
playInspected(r) ==
    /\ ~crashed
    /\ req[r].pc = "inspect"
    /\ LET e == playTeardown(CurEng) IN
       /\ State' = playState(req[r].file, State)
       /\ sockets' = [e.sockets EXCEPT ![r] =
                         [st |-> "connecting", ended |-> FALSE,
                          closePending |-> FALSE, buf |-> <<>>,
                          sent |-> 0]]
       /\ streams' = e.streams
       /\ activeSocket' = r
       /\ activeReadStream' = e.activeReadStream
    /\ req' = [req EXCEPT ![r].pc = "connect"]
    /\ op' = Op("playInspected", r, req[r].file, "none")
    /\ UNCHANGED <<nreq, sink, lastEvent, crashed, cyc>>

\* lines 169-170: opts.start
readStart(bytesSent) == IF bytesSent > 0 THEN bytesSent ELSE 0

\* lines 167-192: the connect callback of socket r. The callback fires for a
\* socket that was end()ed while connecting, but not for a destroyed one.
\* It pipes into the socket that is active NOW; with activeSocket null,
\* pipe() throws inside the callback and the process dies.
socketConnect(r) ==
    /\ ~crashed
    /\ sockets[r].st = "connecting"
    /\ sockets' = [sockets EXCEPT ![r].st = "open"]
    /\ streams' = [streams EXCEPT ![r] =
                      [st |-> "open", pos |-> readStart(State.bytesSent),
                       start |-> readStart(State.bytesSent),
                       dest |-> activeSocket]]
    /\ activeReadStream' = r
    /\ IF activeSocket = 0
       THEN /\ crashed' = TRUE
            /\ req' = [req EXCEPT ![r].pc = "crashed"]
            /\ UNCHANGED <<State, lastEvent>>
       ELSE /\ State' = [State EXCEPT !.playing = TRUE]
            /\ lastEvent' = broadcast(TRUE, State.currentFile)
            /\ req' = [req EXCEPT ![r].pc = "done", ![r].resp = "ok"]
            /\ UNCHANGED crashed
    /\ op' = Op("socketConnect", r, req[r].file,
                IF activeSocket = 0 THEN "none" ELSE "ok")
    /\ cyc' = [cyc EXCEPT !.last = r]
    /\ UNCHANGED <<activeSocket, nreq, sink>>

\* what a socket handler leaves behind, applied to the variables
ApplyEng(e) ==
    /\ sockets' = e.sockets
    /\ streams' = e.streams
    /\ activeSocket' = e.activeSocket
    /\ activeReadStream' = e.activeReadStream

\* lines 156-165 on a failed connection attempt of socket r (the sink refuses):
\* net emits 'error' and then 'close'; neither handler answers the request
socketConnectError(r) ==
    /\ ~crashed
    /\ sockets[r].st = "connecting"
    /\ LET closed == [sockets EXCEPT ![r].st = "closed", ![r].buf = <<>>]
           e == SocketHandler(SocketHandler(
                    Eng(closed, streams, activeSocket, activeReadStream,
                        State.bytesSent)))
       IN  /\ ApplyEng(e)
           /\ State' = [State EXCEPT !.bytesSent = e.bytesSent]
    /\ lastEvent' = broadcast(FALSE, undefined)
    /\ req' = [req EXCEPT ![r].pc = "failed"]
    /\ op' = Op("socketConnectError", r, req[r].file, "none")
    /\ cyc' = CycOff
    /\ UNCHANGED <<nreq, sink, crashed>>

\* lines 161-165 when the sink closes or resets the established connection s
sinkClose(s) ==
    /\ ~crashed
    /\ sockets[s].st = "open"
    /\ LET closed == [sockets EXCEPT ![s].st = "closed", ![s].buf = <<>>]
           e == SocketHandler(Eng(closed, streams, activeSocket,
                                  activeReadStream, State.bytesSent))
       IN  /\ ApplyEng(e)
           /\ State' = [State EXCEPT !.bytesSent = e.bytesSent]
    /\ lastEvent' = broadcast(FALSE, undefined)
    /\ op' = Op("sinkClose", s, req[s].file, "none")
    /\ cyc' = CycOff
    /\ UNCHANGED <<nreq, req, sink, crashed>>

\* lines 161-165 as the late 'close' event of a socket the server destroyed
socketClose(s) ==
    /\ ~crashed
    /\ sockets[s].closePending
    /\ LET emitted == [sockets EXCEPT ![s].closePending = FALSE]
           e == SocketHandler(Eng(emitted, streams, activeSocket,
                                  activeReadStream, State.bytesSent))
       IN  /\ ApplyEng(e)
           /\ State' = [State EXCEPT !.bytesSent = e.bytesSent]
    /\ lastEvent' = broadcast(FALSE, undefined)
    /\ op' = Op("socketClose", s, req[s].file, "none")
    /\ UNCHANGED <<nreq, req, sink, crashed, cyc>>

\* ---- the read stream and its pipe into the socket (lines 171-188) ----------
Min(x, y) == IF x < y THEN x ELSE y

\* the write side of socket s is finished: end() was called, the connection
\* is established and the queue is flushed ('finish' has been emitted)
Finished(sk, s) == sk[s].ended /\ sk[s].st = "open" /\ sk[s].buf = <<>>

\* pipe() unpipes and pauses the source once its destination has emitted
\* 'close' or 'finish'; until then the stream keeps reading
Piped(r) ==
    LET d == streams[r].dest IN
    /\ ~(sockets[d].st = "closed" /\ ~sockets[d].closePending)
    /\ ~Finished(sockets, d)

\* the bytes of one chunk read at position pos of file f
Chunk(f, pos) ==
    [i \in 1..Min(ChunkSize, FileLen(f) - pos) |-> <<f, pos + i - 1>>]

\* line 173: STATE.bytesSent += chunk.length
countChunk(bytesSent, n) == bytesSent + n

\* socket.write(chunk) as pipe() calls it on destination d: a closed socket
\* drops the chunk, an end()ed one fails with write-after-end and is
\* destroyed, any other queues it
SocketWrite(sk, d, chunk) ==
    IF sk[d].st = "closed" THEN sk
    ELSE IF sk[d].ended THEN SocketDestroy(sk, d)
    ELSE [sk EXCEPT ![d].buf = @ \o chunk]

\* lines 172-174 and 188: one 'data' event of read stream r. The pipe waits
\* for the destination to drain before the next chunk (backpressure).
readStreamData(r) ==
    /\ ~crashed
    /\ streams[r].st = "open"
    /\ streams[r].pos < FileLen(req[r].file)
    /\ Piped(r)
    /\ sockets[streams[r].dest].buf = <<>>
    /\ LET chunk == Chunk(req[r].file, streams[r].pos) IN
       /\ State' = [State EXCEPT
                       !.bytesSent = countChunk(State.bytesSent, Len(chunk))]
       /\ streams' = [streams EXCEPT ![r].pos = @ + Len(chunk)]
       /\ sockets' = SocketWrite(sockets, streams[r].dest, chunk)
    /\ op' = Op("readStreamData", r, req[r].file, "none")
    /\ UNCHANGED <<activeSocket, activeReadStream, nreq, req, sink, lastEvent,
                   crashed, cyc>>

\* the queued bytes of established connection s go out to the sink
socketFlush(s) ==
    /\ ~crashed
    /\ sockets[s].st = "open"
    /\ sockets[s].buf # <<>>
    /\ sink' = sink \o sockets[s].buf
    /\ sockets' = [sockets EXCEPT ![s].buf = <<>>,
                                  ![s].sent = @ + Len(sockets[s].buf)]
    /\ op' = Op("socketFlush", s, req[s].file, "none")
    /\ UNCHANGED <<State, activeSocket, activeReadStream, nreq, req, streams,
                   lastEvent, crashed, cyc>>

\* an 'end' handler that forgets to rewind the offset
endStateKeepsOffset(st) == [st EXCEPT !.playing = FALSE]

\* lines 177-178: what the 'end' handler writes to STATE
endState(st) == [st EXCEPT !.playing = FALSE, !.bytesSent = 0]

\* lines 175-181: read stream r has delivered its last chunk. A stream the
\* pipe paused for backpressure emits 'end' only after the drain.
readStreamEnd(r) ==
    /\ ~crashed
    /\ streams[r].st = "open"
    /\ streams[r].pos >= FileLen(req[r].file)
    /\ Piped(r)
    /\ sockets[streams[r].dest].buf = <<>>
    /\ LET ended == [streams EXCEPT ![r].st = "closed"]
           st == endState(State)
           e == cleanupStream(FALSE, Eng(sockets, ended, activeSocket,
                                         activeReadStream, st.bytesSent))
       IN  /\ ApplyEng(e)
           /\ State' = [st EXCEPT !.bytesSent = e.bytesSent]
    /\ lastEvent' = broadcast(FALSE, undefined)
    /\ op' = Op("readStreamEnd", r, req[r].file, "none")
    /\ cyc' = CycEnd
    /\ UNCHANGED <<nreq, req, sink, crashed>>

\* lines 182-186: a read of stream r fails
readStreamError(r) ==
    /\ ~crashed
    /\ streams[r].st = "open"
    /\ LET failed == [streams EXCEPT ![r].st = "closed"]
           e == cleanupStream(FALSE, Eng(sockets, failed, activeSocket,
                                         activeReadStream, State.bytesSent))
       IN  /\ ApplyEng(e)
           /\ State' = [State EXCEPT !.bytesSent = e.bytesSent]
    /\ lastEvent' = broadcast(FALSE, undefined)
    /\ op' = Op("readStreamError", r, req[r].file, "none")
    /\ cyc' = CycOff
    /\ UNCHANGED <<nreq, req, sink, crashed>>

\* ---- POST /api/pause (lines 201-212) ----------------------------------------
pauseEng(e) ==
    cleanupStream(FALSE,
        Eng(SocketEnd(e.sockets, e.activeSocket),
            StreamDestroy(e.streams, e.activeReadStream),
            e.activeSocket, e.activeReadStream, e.bytesSent))

pauseState(st, e) == [st EXCEPT !.playing = FALSE, !.bytesSent = e.bytesSent]

pause ==
    /\ ~crashed
    /\ LET e == pauseEng(CurEng) IN
       /\ ApplyEng(e)
       /\ State' = pauseState(State, e)
    /\ lastEvent' = broadcast(FALSE, undefined)
    /\ op' = Op("pause", 0, "", "ok")
    /\ cyc' = [CycPause EXCEPT !.pausedAt = nreq]
    /\ UNCHANGED <<nreq, req, sink, crashed>>

\* ---- GET /api/stream-status (lines 223-230) ---------------------------------
streamStatus ==
    [playing |-> State.playing,
     currentFileId |-> State.currentFile,
     position |-> IF State.byteRate # 0
                  THEN State.bytesSent \div State.byteRate ELSE 0,
     duration |-> OrElse(State.durationSec, 0)]

\* ---- the system --------------------------------------------------------------
Next ==
    \/ \E f \in FileIds : play(f)
    \/ \E r \in Reqs : playInspected(r)
    \/ \E r \in Reqs : socketConnect(r)
    \/ \E r \in Reqs : socketConnectError(r)
    \/ \E r \in Reqs : sinkClose(r)
    \/ \E r \in Reqs : socketClose(r)
    \/ \E r \in Reqs : readStreamData(r)
    \/ \E r \in Reqs : socketFlush(r)
    \/ \E r \in Reqs : readStreamEnd(r)
    \/ \E r \in Reqs : readStreamError(r)
    \/ pause

Spec == Init /\ [][Next]_vars

TypeOK ==
    /\ State.playing \in BOOLEAN
    /\ State.bytesSent \in Nat
    /\ activeSocket \in 0..MaxReq
    /\ activeReadStream \in 0..MaxReq
    /\ nreq \in 0..MaxReq

\* ---- what is open -------------------------------------------------------------
\* established connections to the sink that neither side has closed
OpenSockets == {s \in Reqs : sockets[s].st = "open"}

\* file read cursors that are neither destroyed nor finished
OpenStreams == {r \in Reqs : streams[r].st = "open"}

\* ---- C1 -------------------------------------------------------------------------
\* C1: in every reachable state at most one outbound TCP connection and at
\* most one file read cursor are open.
C1_AtMostOneOpen ==
    /\ Cardinality(OpenSockets) <= 1
    /\ Cardinality(OpenStreams) <= 1

\* ---- C2 -------------------------------------------------------------------------
\* C2: over a cycle play(f), pause(), play(f), ..., natural completion on one
\* file, every resuming play starts reading at the byteOffset recorded at the
\* pause, and at completion the sink has received the bytes of f exactly once,
\* in order.
C2_ResumeExact ==
    /\ (cyc.st = "done" => sink = FileBytes(cyc.file))
    /\ (cyc.st = "playing" /\ nreq > 0 /\ streams[nreq].st # "none"
            => streams[nreq].start = cyc.off)

\* ---- C3 -------------------------------------------------------------------------
\* C3: when play continues after the inspection with a fileId that differs from
\* currentFile, bytesSent is 0 once it has set up the new session.
C3_OtherFileResets ==
    [][\A r \in Reqs :
         (req[r].pc = "inspect" /\ req'[r].pc = "connect"
            /\ req[r].file # State.currentFile)
         => State'.bytesSent = 0]_vars

\* ---- C4 -------------------------------------------------------------------------
\* C4: in every reachable state, playing implies that the active socket is an
\* open connection, the active read stream is an open cursor, and both were
\* created for currentFile.
C4_PlayingHasResources ==
    State.playing =>
        /\ activeSocket # 0
        /\ sockets[activeSocket].st = "open"
        /\ req[activeSocket].file = State.currentFile
        /\ activeReadStream # 0
        /\ streams[activeReadStream].st = "open"
        /\ req[activeReadStream].file = State.currentFile

\* ---- C5 -------------------------------------------------------------------------
\* C5: the 'end' handler of a read stream leaves playing = false and
\* bytesSent = 0, the stream that reached end-of-file closed, and the active
\* socket and read stream closed and cleared, whatever the length of the file.
C5_CompletionResets ==
    [][op'.name = "readStreamEnd" =>
         /\ State'.playing = FALSE
         /\ State'.bytesSent = 0
         /\ streams'[op'.r].st = "closed"
         /\ activeSocket' = 0
         /\ activeReadStream' = 0
         /\ (activeSocket # 0 => sockets'[activeSocket].st = "closed")
         /\ (activeReadStream # 0 => streams'[activeReadStream].st = "closed")
      ]_vars

\* the zero-length file has completed right after its play succeeded
C5_Witness ==
    /\ op.name = "readStreamEnd"
    /\ op.file = "z"
    /\ op.was
    /\ ~State.playing
    /\ State.bytesSent = 0
    /\ sockets[op.r].st = "closed"

\* ---- C6 -------------------------------------------------------------------------
\* C6: a play request whose connection attempt has failed has been answered
\* with ConnectError.
C6_ConnectErrorReported ==
    \A r \in Reqs : req[r].pc = "failed" => req[r].resp = "ConnectError"

\* ---- C7 -------------------------------------------------------------------------
\* C7: right after the failure of a play's connection attempt is handled,
\* playing is false, bytesSent is what it was when play was called, and no
\* connection and no file cursor is open.
C7_ConnectFailKeepsState ==
    op.name = "socketConnectError" =>
        /\ ~State.playing
        /\ State.bytesSent = req[op.r].b0
        /\ OpenSockets = {}
        /\ OpenStreams = {}

\* ---- C8 -------------------------------------------------------------------------
\* the part of the state a request can observe or change: the session state,
\* the active pair, every socket and read stream, the pending play requests,
\* what the sink received and what was broadcast
Engine == <<State, activeSocket, activeReadStream, sockets, streams, nreq, req,
            sink, lastEvent, crashed>>

\* C8: a play whose fileId names no stored file is answered 404 (NotFound) and
\* changes nothing of the engine.
C8_NotFoundNoChange ==
    [][(op'.name = "play" /\ op'.file # "" /\ op'.file \notin Files) =>
         (op'.resp = "404" /\ UNCHANGED Engine)]_vars

\* play("m") was answered NotFound in the middle of a streaming session
C8_Witness ==
    /\ op.name = "play"
    /\ op.file = "m"
    /\ op.resp = "404"
    /\ State.playing
    /\ State.bytesSent > 0
    /\ OpenStreams # {}

\* ---- C9 -------------------------------------------------------------------------
\* C9: a pause that finds playing = true leaves bytesSent and currentFile as
\* they were, sets playing to false and leaves no connection and no file
\* cursor open; afterwards bytesSent keeps its value until play is called.
C9_PauseRetains ==
    /\ [][(op'.name = "pause" /\ State.playing) =>
            /\ State'.bytesSent = State.bytesSent
            /\ State'.currentFile = State.currentFile
            /\ State'.playing = FALSE
            /\ \A s \in Reqs : sockets'[s].st # "open"
            /\ \A r \in Reqs : streams'[r].st # "open"]_vars
    /\ [][(op.name = "pause" /\ op.was /\ op'.name # "play") =>
            State'.bytesSent = State.bytesSent]_vars

C11_SinkCloseStops ==
    [][(op'.name = "sinkClose" /\ State.playing /\ activeSocket = op'.r) =>
         /\ sockets'[op'.r].st = "closed"
         /\ OpenStreams' = {}
         /\ State'.bytesSent = State.bytesSent
         /\ lastEvent' = broadcast(FALSE, undefined)
         /\ State'.playing = FALSE
         /\ streamStatus'.playing = FALSE]_vars

\* ---- C12 ------------------------------------------------------------------------
\* C12: in every reachable state bytesSent is at most the byte length of the
\* file named by currentFile.
C12_OffsetWithinFile ==
    State.currentFile # null => State.bytesSent <= FileLen(State.currentFile)

\* ---- C13 ------------------------------------------------------------------------
\* C13: every step leaves bytesSent as it is, raises it, or is the completion
\* handler setting it to 0.
C13_OffsetMonotone ==
    [][\/ State'.bytesSent >= State.bytesSent
       \/ (op'.name = "readStreamEnd" /\ State'.bytesSent = 0)]_vars

\* the completion of file "a" has rewound an offset that had advanced; the
\* pause before it had left the offset alone
C13_Witness ==
    /\ op.name = "readStreamEnd"
    /\ op.file = "a"
    /\ streams[op.r].pos = LenA
    /\ streams[op.r].start > 0
    /\ cyc.pausedAt >= 1
    /\ State.bytesSent = 0

\* ---- C14 ------------------------------------------------------------------------
\* C14: in every reachable state, playing implies currentFile is not null.
C14_PlayingHasFile == State.playing => State.currentFile # null

\* a session is playing a stored file
C14_Witness ==
    /\ State.playing
    /\ State.currentFile \in Files
    /\ activeReadStream # 0
    /\ req[activeReadStream].file = State.currentFile

\* ---- C15 ------------------------------------------------------------------------
\* the handlers that are commands or teardown/completion handlers: the steps
\* of a play after its inspection, pause, and the socket and read stream
\* event handlers ('data' and the flush of the socket are the copy itself)
CommandHandlers ==
    {"playInspected", "socketConnect", "socketConnectError", "pause",
     "readStreamEnd", "readStreamError", "sinkClose", "socketClose"}

\* C15: while a play that has started its effects still waits for its
\* connection, no handler of another request changes bytesSent, playing,
\* currentFile or the active socket and read stream.
C15_NoInterleaving ==
    [][\A r \in Reqs :
         (req[r].pc = "connect" /\ op'.name \in CommandHandlers /\ op'.r # r)
         => UNCHANGED <<State.bytesSent, State.playing, State.currentFile,
                        activeSocket, activeReadStream>>]_vars

\* ---- C16 ------------------------------------------------------------------------
\* C16: in every reachable state bytesSent is at most the offset at which the
\* session opened last started reading plus the bytes put on its connection.
C16_NeverOverCounts ==
    (cyc.last # 0 /\ streams[cyc.last].dest # 0) =>
        State.bytesSent <=
            streams[cyc.last].start + sockets[streams[cyc.last].dest].sent

SocketEvents ==
    {"socketClose", "sinkClose", "socketConnectError", "socketConnect"}

\* C18: an event of a socket that is not the active one leaves the active
\* socket and the active read stream as they are, and a connect callback of
\* such a socket pipes nothing into the active socket.
C18_NoLateInterference ==
    [][(activeSocket # 0 /\ op'.name \in SocketEvents
          /\ op'.r # activeSocket) =>
         /\ activeSocket' = activeSocket
         /\ sockets'[activeSocket] = sockets[activeSocket]
         /\ activeReadStream' = activeReadStream
         /\ (activeReadStream # 0 =>
               streams'[activeReadStream] = streams[activeReadStream])
         /\ (op'.name = "socketConnect" =>
               streams'[op'.r].dest # activeSocket)]_vars

\* ---- C19 ------------------------------------------------------------------------
\* C19: as long as no play request has arrived after the last pause, playing
\* is false and no byte goes out to the sink.
C19_PauseHolds ==
    [][cyc'.pausedAt = nreq' =>
         /\ State'.playing = FALSE
         /\ (cyc.pausedAt = nreq => sink' = sink)]_vars

\* ---- C20 ------------------------------------------------------------------------
\* the handlers that end with a broadcast of a status message
Broadcasters ==
    {"socketConnect", "socketConnectError", "sinkClose", "socketClose",
     "readStreamEnd", "readStreamError", "pause"}

\* C20: right after a handler has broadcast a status message, the playing
\* flag of the message equals the playing flag the status query returns.
C20_PushPullAgree ==
    (op.name \in Broadcasters /\ ~crashed) =>
        (lastEvent.sent /\ lastEvent.playing = streamStatus.playing)

====
